---- MODULE Spec2Model ----
(***************************************************************************)
(* A model of storey's typed containers over a flat byte-keyed store:      *)
(* Item (one value under one key), Map (length-prefixed key segments,      *)
(* nesting another container) and the decoding iterator of a Map.          *)
(*                                                                         *)
(* Byte strings are sequences over 0..255.  Results are tagged tuples:     *)
(* <<"Ok", x>>, <<"Err", e>>, <<"Panic">>; options are <<"None">> and      *)
(* <<"Some", x>>.                                                          *)
(***************************************************************************)
EXTENDS Integers, Sequences, FiniteSets, TLC

VARIABLES store, call, entries, dirty, input, out, pc, seen, wrote

vars == <<store, call, entries, dirty, input, out, pc, seen, wrote>>

(***************************************************************************)
(* Bounds of the model.                                                    *)
(***************************************************************************)
\* longest short segment key drawn for a Map
MaxSegLen == 1
\* most raw keys the store holds at once
MaxKeys == 2
\* longest raw key suffix handed to decode_key
MaxSuffixLen == 3

(***************************************************************************)
(* Program constants.                                                      *)
(***************************************************************************)
\* `len as u8`: the length byte keeps the length modulo 2^8
ByteMod == 256
\* u64::to_le_bytes: a value is stored in 8 bytes
ValueWidth == 8

None == <<"None">>
Some(x) == <<"Some", x>>
Ok(x) == <<"Ok", x>>
Err(e) == <<"Err", e>>
Panic == <<"Panic">>
Unit == <<>>

IsOk(r) == r[1] = "Ok"
IsErr(r) == r[1] = "Err"
IsPanic(r) == r[1] = "Panic"

IsPrefix(p, k) == Len(p) <= Len(k) /\ SubSeq(k, 1, Len(p)) = p

(***************************************************************************)
(* The value codec (Encoding / EncodableWith / DecodableWith): little-     *)
(* endian, ValueWidth bytes.  A negative value has no encoding.            *)
(***************************************************************************)
RECURSIVE LeBytes(_, _)
LeBytes(v, n) == IF n = 0 THEN <<>> ELSE <<v % ByteMod>> \o LeBytes(v \div ByteMod, n - 1)

RECURSIVE LeValue(_)
LeValue(b) == IF b = <<>> THEN 0 ELSE b[1] + ByteMod * LeValue(Tail(b))

Encode(v) == IF v < 0 THEN Err("EncodeError") ELSE Ok(LeBytes(v, ValueWidth))

Decode(b) == IF Len(b) = ValueWidth THEN Ok(LeValue(b)) ELSE Err("DecodeError")

(***************************************************************************)
(* The raw store (Storage / StorageMut): a function from the keys present  *)
(* to their values.                                                        *)
(***************************************************************************)
StorageGet(st, k) == IF k \in DOMAIN st THEN Some(st[k]) ELSE None

StorageSet(st, k, b) == [x \in DOMAIN st \cup {k} |-> IF x = k THEN b ELSE st[x]]

StorageRemove(st, k) == [x \in DOMAIN st \ {k} |-> st[x]]

(***************************************************************************)
(* StorageBranch: a store view under a prefix; every key it forwards is    *)
(* prefix ++ suffix.                                                       *)
(***************************************************************************)
BranchGet(st, prefix, suffix) == StorageGet(st, prefix \o suffix)

BranchSet(st, prefix, suffix, b) == StorageSet(st, prefix \o suffix, b)

BranchRemove(st, prefix, suffix) == StorageRemove(st, prefix \o suffix)

\* byte-lexicographic order: decided at the first position that differs
LexLess(a, b) ==
    LET n == IF Len(a) < Len(b) THEN Len(a) ELSE Len(b)
    IN IF \A i \in 1..n : a[i] = b[i] THEN Len(a) < Len(b)
       ELSE LET i == CHOOSE x \in 1..n : a[x] # b[x] /\ \A y \in 1..(x - 1) : a[y] = b[y]
            IN a[i] < b[i]

RECURSIVE SortKeys(_)
SortKeys(S) ==
    IF S = {} THEN <<>>
    ELSE LET m == CHOOSE x \in S : \A y \in S \ {x} : LexLess(x, y)
         IN <<m>> \o SortKeys(S \ {m})

\* pairs(None, None): the pairs under the prefix, ascending by key, keys de-prefixed
BranchPairs(st, prefix) ==
    LET under == {k \in DOMAIN st : IsPrefix(prefix, k)}
        rel == {SubSeq(k, Len(prefix) + 1, Len(k)) : k \in under}
        sorted == SortKeys(rel)
    IN [i \in 1..Len(sorted) |-> <<sorted[i], st[prefix \o sorted[i]]>>]

(***************************************************************************)
(* Item: one value under the empty key of its branch.                      *)
(***************************************************************************)
\* a slip: every Item's branch at the empty prefix
ItemAccessNoKey(key) == <<>>

\* Item::access: the branch of an Item declared with `key`
ItemAccess(key) == <<key>>

ItemDecodeKey(key) == IF key = <<>> THEN Ok(Unit) ELSE Err("ItemKeyDecodeError")

ItemDecodeValue(b) == Decode(b)

\* storage.get(&[]).map(|bytes| T::decode(&bytes)).transpose()
ItemAccessGet(st, prefix) ==
    LET bytes == BranchGet(st, prefix, <<>>)
    IN IF bytes[1] = "None" THEN Ok(None)
       ELSE LET d == Decode(bytes[2])
            IN IF IsOk(d) THEN Ok(Some(d[2])) ELSE d

\* self.get()?.ok_or_else(|| TryGetError::Empty)
ItemAccessTryGet(st, prefix) ==
    LET g == ItemAccessGet(st, prefix)
    IN IF IsErr(g) THEN Err("Decode")
       ELSE IF g[2][1] = "None" THEN Err("Empty")
       ELSE Ok(g[2][2])

\* self.get().map(|opt| opt.unwrap_or(default))
ItemAccessGetOr(st, prefix, default) ==
    LET g == ItemAccessGet(st, prefix)
    IN IF IsErr(g) THEN g
       ELSE IF g[2][1] = "None" THEN Ok(default)
       ELSE Ok(g[2][2])

\* let bytes = value.encode()?; self.storage.set(&[], &bytes); Ok(())
ItemAccessSet(st, prefix, v) ==
    LET e == Encode(v)
    IN IF IsErr(e) THEN [st |-> st, res |-> e]
       ELSE [st |-> BranchSet(st, prefix, <<>>, e[2]), res |-> Ok(Unit)]

\* a slip: remove under a key other than the empty one
ItemAccessRemoveOtherKey(st, prefix) ==
    [st |-> BranchRemove(st, prefix, <<0>>), res |-> Ok(Unit)]

ItemAccessRemove(st, prefix) == [st |-> BranchRemove(st, prefix, <<>>), res |-> Ok(Unit)]

\* the closures handed to update, FnOnce(Option<T>) -> T
Closures == {"succ", "twice", "neg"}

ClosureMod == 4

Apply(f, opt) ==
    CASE f = "succ" -> IF opt[1] = "None" THEN 0 ELSE (opt[2] + 1) % ClosureMod
      [] f = "twice" -> IF opt[1] = "None" THEN 1 ELSE (2 * opt[2]) % ClosureMod
      [] f = "neg" -> 0 - 1

\* a slip: the read phase hands f None whatever the slot holds
UpdateReadPhaseBlind(st, prefix, f) == Ok(Apply(f, None))

\* the read phase of update: f(self.get().map_err(UpdateError::Decode)?)
UpdateReadPhase(st, prefix, f) ==
    LET g == ItemAccessGet(st, prefix)
    IN IF IsErr(g) THEN Err("Decode") ELSE Ok(Apply(f, g[2]))

\* the write phase of update: self.set(&new_value).map_err(UpdateError::Encode)
UpdateWritePhase(st, prefix, new_value) ==
    LET w == ItemAccessSet(st, prefix, new_value)
    IN [st |-> w.st, res |-> IF IsErr(w.res) THEN Err("Encode") ELSE w.res]

\* a slip: a slot that does not decode is read as None and overwritten
ItemAccessUpdateLossy(st, prefix, f) ==
    LET g == ItemAccessGet(st, prefix)
        w == UpdateWritePhase(st, prefix, Apply(f, IF IsErr(g) THEN None ELSE g[2]))
    IN [st |-> w.st, res |-> w.res, called |-> TRUE]

\* update, uninterrupted; `called` tells whether f ran
ItemAccessUpdate(st, prefix, f) ==
    LET r == UpdateReadPhase(st, prefix, f)
    IN IF IsErr(r) THEN [st |-> st, res |-> r, called |-> FALSE]
       ELSE LET w == UpdateWritePhase(st, prefix, r[2])
            IN [st |-> w.st, res |-> w.res, called |-> TRUE]

\* the earlier Item::get(storage, key) -> Option<T>
\* let data = storage.get(key)?; let item = T::decode(&data).ok()?; Some(item)
ItemGet(st, key) ==
    LET data == StorageGet(st, key)
    IN IF data[1] = "None" THEN None
       ELSE LET d == Decode(data[2])
            IN IF IsOk(d) THEN Some(d[2]) ELSE None

(***************************************************************************)
(* Map: entries keyed by a length-prefixed String segment; the value of an *)
(* entry is another container.  A container shape is its nesting depth:    *)
(* 0 is an Item, n + 1 is a Map whose inner container has depth n.         *)
(***************************************************************************)
\* a slip: the segment without its length byte
MapAccessGetNoLen(s) == s

\* MapAccess::get: key.push(len as u8); key.extend_from_slice(bytes)
MapAccessGet(s) == <<Len(s) % ByteMod>> \o s

IsCont(b) == b >= 128 /\ b <= 191

\* the continuation bytes a lead byte announces; -1 for a byte that leads nothing
Utf8Width(x) ==
    CASE x < 128 -> 0
      [] x >= 194 /\ x <= 223 -> 1
      [] x >= 224 /\ x <= 239 -> 2
      [] x >= 240 /\ x <= 244 -> 3
      [] OTHER -> 0 - 1

\* std::str::from_utf8: all ASCII, or else every byte that is no continuation
\* byte leads a well-formed scalar and every continuation byte belongs to one
IsUtf8(b) ==
    \/ \A i \in 1..Len(b) : b[i] < 128
    \/ /\ \A i \in 1..Len(b) :
             IsCont(b[i]) \/
                LET x == b[i]
                    n == Utf8Width(x)
                IN /\ n >= 0
                   /\ i + n <= Len(b)
                   /\ \A j \in (i + 1)..(i + n) : IsCont(b[j])
                   /\ (x = 224 => b[i + 1] >= 160)
                   /\ (x = 237 => b[i + 1] <= 159)
                   /\ (x = 240 => b[i + 1] >= 144)
                   /\ (x = 244 => b[i + 1] <= 143)
       /\ \A i \in 1..Len(b) :
             IsCont(b[i]) =>
                \E d \in 1..3 :
                   /\ i - d >= 1
                   /\ ~IsCont(b[i - d])
                   /\ Utf8Width(b[i - d]) >= d
                   /\ \A j \in (i - d + 1)..i : IsCont(b[j])

\* String::from_bytes
StringFromBytes(b) == IF IsUtf8(b) THEN Ok(b) ELSE Err(Unit)

\* Map::decode_key, V being a container of depth - 1.  Indexing past the end
\* of the slice and unwrap() on an Err both panic.
RECURSIVE MapDecodeKey(_, _)

\* V::decode_key: an Item's at depth 0, a Map's above
StorableDecodeKey(depth, key) ==
    IF depth = 0 THEN ItemDecodeKey(key) ELSE MapDecodeKey(depth, key)

MapDecodeKey(depth, key) ==
    IF Len(key) = 0 THEN Panic
    ELSE LET len == key[1]
         IN IF len + 1 > Len(key) THEN Panic
            ELSE LET map_key == StringFromBytes(SubSeq(key, 2, len + 1))
                 IN IF IsErr(map_key) THEN Err(Unit)
                    ELSE LET rest == StorableDecodeKey(depth - 1, SubSeq(key, len + 2, Len(key)))
                         IN IF IsOk(rest) THEN Ok(<<map_key[2], rest[2]>>) ELSE Panic

\* Map::decode_value: V::decode_value(value)
MapDecodeValue(value) == ItemDecodeValue(value)

\* MapIter::next on one raw pair
MapIterNext(depth, pair) ==
    LET k == MapDecodeKey(depth, pair[1])
    IN IF IsPanic(k) THEN Panic
       ELSE LET v == MapDecodeValue(pair[2])
            IN IF IsErr(k) THEN Err(<<"Key", "KeyDecodeError">>)
               ELSE IF IsErr(v) THEN Err(<<"Value", v[2]>>)
               ELSE Ok(<<k[2], v[2]>>)

\* MapAccess::iter(None, None) consumed to its end: the items produced, and
\* whether a call of next panicked (the items after it are never produced)
RECURSIVE IterFrom(_, _, _)
IterFrom(depth, pairs, i) ==
    IF i > Len(pairs) THEN [items |-> <<>>, panicked |-> FALSE]
    ELSE LET r == MapIterNext(depth, pairs[i])
         IN IF IsPanic(r) THEN [items |-> <<>>, panicked |-> TRUE]
            ELSE LET t == IterFrom(depth, pairs, i + 1)
                 IN [items |-> <<r>> \o t.items, panicked |-> t.panicked]

MapAccessIter(st, prefix, depth) == IterFrom(depth, BranchPairs(st, prefix), 1)

\* the longest segment whose length fits the length byte, and the shortest
\* that does not
FullSeg == [i \in 1..(ByteMod - 1) |-> 97]

LongSeg == [i \in 1..ByteMod |-> 97]

(***************************************************************************)
(* The containers declared on the one store.  mapC's prefix extends        *)
(* mapA's; mapC nests a Map.                                               *)
(***************************************************************************)
Decl ==
    [item0 |-> [prefix |-> <<0>>, depth |-> 0, segs |-> {}],
     item1 |-> [prefix |-> <<1>>, depth |-> 0, segs |-> {}],
     mapA |-> [prefix |-> <<2>>, depth |-> 1, segs |-> {<<97>>, FullSeg}],
     mapB |-> [prefix |-> <<3>>, depth |-> 1, segs |-> {<<97>>, <<98>>}],
     mapC |-> [prefix |-> <<2, 1>>, depth |-> 2, segs |-> {<<>>, <<97>>}]]

Names == DOMAIN Decl

ItemNames == {c \in Names : Decl[c].depth = 0}

MapNames == {c \in Names : Decl[c].depth > 0}

\* Map::access: the branch of a Map declared with `prefix`
MapAccess(prefix) == prefix

\* Item::new(key).access(..) or Map::new(prefix).access(..)
Access(c) ==
    IF Decl[c].depth = 0 THEN ItemAccess(Decl[c].prefix[1]) ELSE MapAccess(Decl[c].prefix)

\* c.access(..).get(s1).get(s2)...: the branch reached through the segments
RECURSIVE GetPath(_)
GetPath(segs) == IF segs = <<>> THEN <<>> ELSE MapAccessGet(Head(segs)) \o GetPath(Tail(segs))

AccessPath(c, segs) == Access(c) \o GetPath(segs)

RECURSIVE SegPaths(_, _)
SegPaths(S, n) ==
    IF n = 0 THEN {<<>>} ELSE {<<s>> \o t : s \in S, t \in SegPaths(S, n - 1)}

\* the segment paths drawn for c: one segment per level of nesting
Paths == [c \in Names |-> SegPaths(Decl[c].segs, Decl[c].depth)]

\* the paths to the Maps nested in c, c itself included
SubPaths ==
    [c \in Names |-> UNION {SegPaths(Decl[c].segs, n) : n \in 0..(Decl[c].depth - 1)}]

\* the values handed to set
Values == {7, 42}

NoCall == [op |-> "none", c |-> "none", segs |-> <<>>, v |-> 0, res |-> Ok(Unit)]

\* what was put through c's own accessors and not removed or overwritten since
Put(E, c, segs, v) ==
    [E EXCEPT ![c] = {e \in @ : e[1] # segs} \cup {<<segs, v>>}]

Unput(E, c, segs) == [E EXCEPT ![c] = {e \in @ : e[1] # segs}]

Overwritten(E, k) == [c \in Names |-> {e \in E[c] : AccessPath(c, e[1]) # k}]

Set(c, segs, v) ==
    LET path == AccessPath(c, segs)
        r == ItemAccessSet(store, path, v)
    IN /\ Cardinality(DOMAIN store \cup {path}) <= MaxKeys
       /\ store' = r.st
       /\ call' = [op |-> "set", c |-> c, segs |-> segs, v |-> v, res |-> r.res]
       /\ entries' = IF IsOk(r.res) THEN Put(entries, c, segs, v) ELSE entries
       /\ UNCHANGED <<dirty, input, out, pc, seen, wrote>>

Remove(c, segs) ==
    LET path == AccessPath(c, segs)
        r == ItemAccessRemove(store, path)
    IN /\ store' = r.st
       /\ call' = [op |-> "remove", c |-> c, segs |-> segs, v |-> 0, res |-> r.res]
       /\ entries' = Unput(entries, c, segs)
       /\ UNCHANGED <<dirty, input, out, pc, seen, wrote>>

Get(c, segs) ==
    /\ call' = [op |-> "get", c |-> c, segs |-> segs, v |-> 0,
                res |-> ItemAccessGet(store, AccessPath(c, segs))]
    /\ UNCHANGED <<store, entries, dirty, input, out, pc, seen, wrote>>

Iter(c, segs) ==
    /\ call' = [op |-> "iter", c |-> c, segs |-> segs, v |-> 0,
                res |-> MapAccessIter(store, AccessPath(c, segs), Decl[c].depth - Len(segs))]
    /\ UNCHANGED <<store, entries, dirty, input, out, pc, seen, wrote>>

Init ==
    /\ store = <<>>
    /\ call = NoCall
    /\ entries = [c \in Names |-> {}]
    /\ dirty = FALSE
    /\ input = <<>>
    /\ out = <<>>
    /\ pc = <<>>
    /\ seen = <<>>
    /\ wrote = <<>>

Next ==
    \/ \E c \in Names, v \in Values : \E segs \in Paths[c] : Set(c, segs, v)
    \/ \E c \in Names : \E segs \in Paths[c] : Remove(c, segs)
    \/ \E c \in ItemNames : \E segs \in Paths[c] : Get(c, segs)

Spec == Init /\ [][Next]_vars

(***************************************************************************)
(* Claims checked under Spec: the containers' own operations.              *)
(***************************************************************************)
\* the register an Item is claimed to be: the value last set and not removed
Register(c) == IF entries[c] = {} THEN None ELSE Some((CHOOSE e \in entries[c] : TRUE)[2])

\* C1: an Item is a single-slot register over its accessors' set, remove and
\* get: get() returns Ok(None) before any set and after a remove, and
\* Ok(Some(v)) for the most recent set otherwise; remove() is never an error
\* and leaves get() returning Ok(None).
C1_ItemIsRegister ==
    /\ \A c \in ItemNames : ItemAccessGet(store, Access(c)) = Ok(Register(c))
    /\ (call.op = "get" /\ call.c \in ItemNames) => call.res = Ok(Register(call.c))
    /\ (call.op = "remove" /\ call.c \in ItemNames) =>
          /\ IsOk(call.res)
          /\ ItemAccessGet(store, Access(call.c)) = Ok(None)

\* an Item read back after an overwrite, beside another Item that is set
C1_Witness ==
    /\ call.op = "get" /\ call.c = "item0" /\ call.res = Ok(Some(42))
    /\ entries["item1"] = {<<Unit, 7>>}

\* what c's accessors return: get() at every path, iteration at every Map
View(st, c) ==
    [gets |-> [segs \in Paths[c] |-> ItemAccessGet(st, AccessPath(c, segs))],
     iters |-> [segs \in SubPaths[c] |->
                  MapAccessIter(st, AccessPath(c, segs), Decl[c].depth - Len(segs))]]

IsWrite(x) == x.op \in {"set", "remove"}

PrefixFree(p, q) == ~IsPrefix(p, q) /\ ~IsPrefix(q, p)

\* C2 as stated: a set or remove through one container never changes what
\* get() or iteration returns through a sibling at a distinct root prefix.
C2_DistinctPrefixes ==
    [][\A d \in Names :
          (IsWrite(call') /\ Decl[call'.c].prefix # Decl[d].prefix)
             => View(store', d) = View(store, d)]_vars

\* C2 as amended: the same, for siblings neither of whose root prefixes is a
\* prefix of the other.
C2_PrefixFree ==
    [][\A d \in Names :
          (IsWrite(call') /\ PrefixFree(Decl[call'.c].prefix, Decl[d].prefix))
             => View(store', d) = View(store, d)]_vars

\* item0 set while item1 still reads None and the raw key [1] is absent
C2_Witness ==
    /\ call.op = "set" /\ call.c = "item0" /\ call.v = 42
    /\ ItemAccessGet(store, Access("item0")) = Ok(Some(42))
    /\ ItemAccessGet(store, Access("item1")) = Ok(None)
    /\ <<1>> \notin DOMAIN store
    /\ \E k \in DOMAIN store : IsPrefix(Decl["mapB"].prefix, k)

\* the persisted key of the entry at the segments: P ++ [len(s)] ++ s ++ ...
RECURSIVE Layout(_, _)
Layout(P, segs) ==
    IF segs = <<>> THEN P ELSE Layout(P \o <<Len(Head(segs))>> \o Head(segs), Tail(segs))

\* C3: a set(v) through a container declared at root prefix P writes exactly
\* one raw key, holding encode(v): P for an Item, P ++ [len(s)] ++ s for a
\* Map of Items, P ++ [len(s)] ++ s ++ [len(s2)] ++ s2 for a Map of Maps
\* (segments of at most 255 bytes); no other raw key is created or modified.
C3_PersistedLayout ==
    [][(call'.op = "set" /\ IsOk(call'.res)
          /\ \A i \in 1..Len(call'.segs) : Len(call'.segs[i]) <= 255)
        => LET k == Layout(Decl[call'.c].prefix, call'.segs)
           IN /\ k \in DOMAIN store'
              /\ store'[k] = LeBytes(call'.v, 8)
              /\ \A x \in (DOMAIN store \cup DOMAIN store') \ {k} :
                    StorageGet(store', x) = StorageGet(store, x)]_vars

\* a 255-byte segment and a nested entry with an empty segment, both stored
C3_Witness ==
    /\ call.op = "set" /\ call.c = "mapC" /\ call.segs = <<<<97>>, <<>>>> /\ call.v = 42
    /\ store[<<2, 1, 1, 97, 0>>] = <<42, 0, 0, 0, 0, 0, 0, 0>>
    /\ (<<2, 255>> \o FullSeg) \in DOMAIN store

(***************************************************************************)
(* SpecRaw: the Items' accessors beside raw writes to the store, which can *)
(* leave a slot holding bytes that do not decode.                          *)
(***************************************************************************)
\* the values handed to set and get_or here; the negative one has no encoding
RawValues == {0 - 1, 7, 42}

\* the bytes written raw: a well-formed value, a short one, a long one
RawBytes == {LeBytes(42, ValueWidth), <<7>>, LeBytes(7, ValueWidth) \o <<0>>}

TryGet(c) ==
    /\ call' = [op |-> "try_get", c |-> c, segs |-> <<>>, v |-> 0,
                res |-> ItemAccessTryGet(store, Access(c))]
    /\ UNCHANGED <<store, entries, dirty, input, out, pc, seen, wrote>>

GetOr(c, default) ==
    /\ call' = [op |-> "get_or", c |-> c, segs |-> <<>>, v |-> default,
                res |-> ItemAccessGetOr(store, Access(c), default)]
    /\ UNCHANGED <<store, entries, dirty, input, out, pc, seen, wrote>>

Update(c, f) ==
    LET r == ItemAccessUpdate(store, Access(c), f)
    IN /\ store' = r.st
       /\ call' = [op |-> "update", c |-> c, segs |-> <<>>, v |-> f,
                   res |-> <<r.res, r.called>>]
       /\ entries' = IF IsOk(r.res) THEN Put(entries, c, <<>>, Apply(f, Register(c)))
                     ELSE entries
       /\ UNCHANGED <<dirty, input, out, pc, seen, wrote>>

\* the earlier Item::get(storage, key), called with the Item's own key
LegacyGet(c) ==
    /\ call' = [op |-> "item_get", c |-> c, segs |-> <<>>, v |-> 0,
                res |-> ItemGet(store, Decl[c].prefix)]
    /\ UNCHANGED <<store, entries, dirty, input, out, pc, seen, wrote>>

\* storage.set(key, bytes) on the store itself
RawSet(k, b) ==
    /\ Cardinality(DOMAIN store \cup {k}) <= MaxKeys
    /\ store' = StorageSet(store, k, b)
    /\ call' = [op |-> "raw_set", c |-> "none", segs |-> <<k>>, v |-> 0, res |-> Ok(Unit)]
    /\ entries' = Overwritten(entries, k)
    /\ dirty' = TRUE
    /\ UNCHANGED <<input, out, pc, seen, wrote>>

\* storage.remove(key) on the store itself
RawRemove(k) ==
    /\ store' = StorageRemove(store, k)
    /\ call' = [op |-> "raw_remove", c |-> "none", segs |-> <<k>>, v |-> 0, res |-> Ok(Unit)]
    /\ entries' = Overwritten(entries, k)
    /\ dirty' = TRUE
    /\ UNCHANGED <<input, out, pc, seen, wrote>>

NextRaw ==
    \/ \E c \in ItemNames, v \in RawValues : Set(c, <<>>, v)
    \/ \E c \in ItemNames : Remove(c, <<>>)
    \/ \E c \in ItemNames : Get(c, <<>>)
    \/ \E c \in ItemNames : TryGet(c)
    \/ \E c \in ItemNames, v \in RawValues : GetOr(c, v)
    \/ \E c \in ItemNames, f \in Closures : Update(c, f)
    \/ \E c \in ItemNames : LegacyGet(c)
    \/ \E c \in ItemNames, b \in RawBytes : RawSet(Decl[c].prefix, b)
    \/ \E c \in ItemNames : RawRemove(Decl[c].prefix)

SpecRaw == Init /\ [][NextRaw]_vars

\* the slot of Item c in the raw store
Slot(st, c) == StorageGet(st, Decl[c].prefix)

Absent(st, c) == Slot(st, c) = None

Undecodable(st, c) == ~Absent(st, c) /\ IsErr(Decode(Slot(st, c)[2]))

\* C8: no decode failure is swallowed on reads of an Item: get() returns
\* Ok(None) only when the slot is absent and the decode error when it is
\* present but undecodable (never None, never a default); try_get() returns
\* Empty exactly when absent and Decode exactly when undecodable; get_or
\* returns the default exactly when absent and the decode error when
\* undecodable.
C8_NoSwallowedDecodeFailure ==
    /\ call.op = "get" =>
          /\ call.res = Ok(None) <=> Absent(store, call.c)
          /\ Undecodable(store, call.c) => call.res = Err("DecodeError")
    /\ call.op = "item_get" =>
          /\ call.res = None => Absent(store, call.c)
          /\ ~Undecodable(store, call.c) => call.res = ItemAccessGet(store, Access(call.c))[2]
    /\ call.op = "try_get" =>
          /\ call.res = Err("Empty") <=> Absent(store, call.c)
          /\ call.res = Err("Decode") <=> Undecodable(store, call.c)
    /\ call.op = "get_or" =>
          /\ Absent(store, call.c) => call.res = Ok(call.v)
          /\ Undecodable(store, call.c) => call.res = Err("DecodeError")
          /\ (~Absent(store, call.c) /\ ~Undecodable(store, call.c))
                => call.res = Ok(LeValue(Slot(store, call.c)[2]))

\* the part of C8 that is about the accessor alone
C8_AccessorOnly ==
    /\ call.op = "get" =>
          /\ call.res = Ok(None) <=> Absent(store, call.c)
          /\ Undecodable(store, call.c) => call.res = Err("DecodeError")
    /\ call.op = "try_get" =>
          /\ call.res = Err("Empty") <=> Absent(store, call.c)
          /\ call.res = Err("Decode") <=> Undecodable(store, call.c)
    /\ call.op = "get_or" =>
          /\ Absent(store, call.c) => call.res = Ok(call.v)
          /\ Undecodable(store, call.c) => call.res = Err("DecodeError")

\* C10: a failed update leaves the store unchanged: on a slot that is present
\* but undecodable it returns UpdateError::Decode without calling f and
\* without writing; when f's result fails to encode it returns
\* UpdateError::Encode without writing; otherwise the slot, and no other key,
\* is overwritten with encode(f(current)), current being None when absent.
C10_FailedUpdateWritesNothing ==
    [][call'.op = "update" =>
          LET c == call'.c
              k == Decl[c].prefix
              f == call'.v
              res == call'.res[1]
              called == call'.res[2]
              current == IF Absent(store, c) THEN None ELSE Some(LeValue(Slot(store, c)[2]))
          IN IF Undecodable(store, c)
                THEN res = Err("Decode") /\ ~called /\ store' = store
             ELSE IF Apply(f, current) < 0
                THEN res = Err("Encode") /\ store' = store
             ELSE /\ res = Ok(Unit)
                  /\ store'[k] = LeBytes(Apply(f, current), ValueWidth)
                  /\ DOMAIN store' = DOMAIN store \cup {k}
                  /\ \A x \in DOMAIN store \ {k} : store'[x] = store[x]]_vars

\* an update refused on an undecodable slot, beside a sibling holding a value
C10_Witness ==
    /\ call.op = "update" /\ call.c = "item0" /\ call.res = <<Err("Decode"), FALSE>>
    /\ Slot(store, "item0") = Some(<<7>>)
    /\ ~Absent(store, "item1")

(***************************************************************************)
(* SpecIter: Maps filled through their accessors, with segments up to      *)
(* ByteMod bytes, beside raw writes under a Map's prefix, and iterated.    *)
(***************************************************************************)
RECURSIVE BytesUpTo(_, _)
BytesUpTo(B, n) ==
    IF n = 0 THEN {<<>>}
    ELSE LET shorter == BytesUpTo(B, n - 1)
         IN shorter \cup {<<b>> \o t : b \in B, t \in {x \in shorter : Len(x) = n - 1}}

\* the Strings handed to mapA.get: the short ones, and one of ByteMod bytes
IterSegs == {s \in BytesUpTo({97}, MaxSegLen) : IsUtf8(s)} \cup {LongSeg}

\* raw keys under mapA's prefix: the prefix itself, the entry "", a segment
\* that is not UTF-8, a length byte past the end, bytes after the segment
RawMapKeys == {<<2>>, <<2, 0>>, <<2, 1, 255>>, <<2, 5, 97>>, <<2, 0, 9>>}

NextIter ==
    \/ \E s \in IterSegs, v \in Values : Set("mapA", <<s>>, v)
    \/ \E s \in IterSegs : Remove("mapA", <<s>>)
    \/ \E s \in IterSegs : Get("mapA", <<s>>)
    \/ \E v \in Values : \E segs \in Paths["mapC"] : Set("mapC", segs, v)
    \/ \E segs \in Paths["mapC"] : Remove("mapC", segs)
    \/ \E c \in {"mapA", "mapC"} : \E segs \in SubPaths[c] : Iter(c, segs)
    \/ \E k \in RawMapKeys, b \in RawBytes : RawSet(k, b)
    \/ \E k \in RawMapKeys : RawRemove(k)

SpecIter == Init /\ [][NextIter]_vars

\* the typed key of an entry: (s1, (s2, ... ()))
RECURSIVE NestedKey(_)
NestedKey(segs) == IF segs = <<>> THEN Unit ELSE <<Head(segs), NestedKey(Tail(segs))>>

RECURSIVE Flatten(_)
Flatten(key) == IF key = Unit THEN <<>> ELSE <<key[1]>> \o Flatten(key[2])

\* everything stored under c's prefix was put there through c's accessors
Clean(c) ==
    /\ ~dirty
    /\ \A k \in DOMAIN store :
          IsPrefix(Decl[c].prefix, k) => \E e \in entries[c] : k = AccessPath(c, e[1])

\* C6: after inserting entries with distinct keys through get(k).set(v), and
\* no other write under the Map's prefix, iter(None, None) yields exactly one
\* Ok((k, v)) per entry, correctly decoded, none missing or duplicated, in the
\* ascending byte order of the stored keys.
C6_IterationComplete ==
    (call.op = "iter" /\ call.segs = <<>> /\ Clean(call.c)) =>
       LET items == call.res.items
       IN /\ ~call.res.panicked
          /\ Len(items) = Cardinality(entries[call.c])
          /\ \A i \in 1..Len(items) : IsOk(items[i])
          /\ \A e \in entries[call.c] :
                \E i \in 1..Len(items) : items[i] = Ok(<<NestedKey(e[1]), e[2]>>)
          /\ \A i \in 1..Len(items) : \A j \in (i + 1)..Len(items) :
                LexLess(Layout(<<>>, Flatten(items[i][2][1])),
                        Layout(<<>>, Flatten(items[j][2][1])))

\* the key decoding the claims describe: every slice bounds-checked, every
\* failure a typed error
RECURSIVE CheckedDecodeKey(_, _)
CheckedDecodeKey(depth, key) ==
    IF depth = 0 THEN (IF key = <<>> THEN Ok(Unit) ELSE Err(Unit))
    ELSE IF key = <<>> \/ key[1] + 1 > Len(key) THEN Err(Unit)
    ELSE LET seg == SubSeq(key, 2, key[1] + 1)
             rest == CheckedDecodeKey(depth - 1, SubSeq(key, key[1] + 2, Len(key)))
         IN IF ~IsUtf8(seg) \/ IsErr(rest) THEN Err(Unit) ELSE Ok(<<seg, rest[2]>>)

\* the item the claims describe for one raw pair
CheckedItem(depth, pair) ==
    LET k == CheckedDecodeKey(depth, pair[1])
        v == Decode(pair[2])
    IN IF IsErr(k) THEN Err(<<"Key", "KeyDecodeError">>)
       ELSE IF IsErr(v) THEN Err(<<"Value", v[2]>>)
       ELSE Ok(<<k[2], v[2]>>)

\* C7: the iterator produces exactly one item per raw pair of the range, in
\* order: Err(Key) when the key does not decode, Err(Value) when the key
\* decodes but the value does not, Ok otherwise; a failing pair never ends
\* the iteration, never panics and never changes the other pairs' items.
C7_PerItemErrors ==
    call.op = "iter" =>
       LET pairs == BranchPairs(store, AccessPath(call.c, call.segs))
           depth == Decl[call.c].depth - Len(call.segs)
           items == call.res.items
       IN /\ ~call.res.panicked
          /\ Len(items) = Len(pairs)
          /\ \A i \in 1..Len(pairs) : items[i] = CheckedItem(depth, pairs[i])

(***************************************************************************)
(* SpecKey: Map::decode_key applied to raw key suffixes, and to the        *)
(* suffixes MapAccess::get composes.                                       *)
(***************************************************************************)
Pending == <<"Pending">>

\* the bytes raw suffixes are drawn from: lengths, ASCII, a byte no UTF-8 has
KeyBytes == {0, 1, 2, 97, 255}

\* the segments composed: empty, ASCII, two-byte UTF-8, 255 and 256 bytes
ComposeSegs == {<<>>, <<97>>, <<195, 169>>, FullSeg, LongSeg}

KeyInputs ==
    {[kind |-> "decode", depth |-> d, key |-> k, segs |-> <<>>] :
        d \in 1..2, k \in BytesUpTo(KeyBytes, MaxSuffixLen)}
    \cup {[kind |-> "compose", depth |-> d, key |-> <<>>, segs |-> p] :
             d \in {1}, p \in SegPaths(ComposeSegs, 1)}
    \cup {[kind |-> "compose", depth |-> d, key |-> <<>>, segs |-> p] :
             d \in {2}, p \in SegPaths(ComposeSegs, 2)}

InitKey ==
    /\ input \in KeyInputs
    /\ out = Pending
    /\ store = <<>>
    /\ call = NoCall
    /\ entries = [c \in Names |-> {}]
    /\ dirty = FALSE
    /\ pc = <<>>
    /\ seen = <<>>
    /\ wrote = <<>>

\* Map::decode_key on a raw suffix
DecodeRaw ==
    /\ input.kind = "decode"
    /\ out = Pending
    /\ out' = MapDecodeKey(input.depth, input.key)
    /\ UNCHANGED <<store, call, entries, dirty, input, pc, seen, wrote>>

\* Map::decode_key on the suffix that get(s1)[.get(s2)] builds
DecodeComposed ==
    /\ input.kind = "compose"
    /\ out = Pending
    /\ out' = MapDecodeKey(input.depth, GetPath(input.segs))
    /\ UNCHANGED <<store, call, entries, dirty, input, pc, seen, wrote>>

NextKey == DecodeRaw \/ DecodeComposed

SpecKey == InitKey /\ [][NextKey]_vars

\* C4: decode_key applied to the suffix MapAccess::get builds for s, followed
\* by the inner container's key for k, yields Ok((s, k)), for all s and k.
C4_KeyRoundTrip ==
    (input.kind = "compose" /\ out # Pending) => out = Ok(NestedKey(input.segs))

\* C5: decode_key rejects every malformed suffix with a typed Err and never
\* faults: the empty string, a length byte past the end, a segment that is no
\* valid key, a remainder the inner container rejects.
C5_MalformedKeyIsErr ==
    (input.kind = "decode" /\ out # Pending) =>
       /\ ~IsPanic(out)
       /\ IsErr(CheckedDecodeKey(input.depth, input.key)) => IsErr(out)
       /\ IsOk(CheckedDecodeKey(input.depth, input.key)) =>
             out = CheckedDecodeKey(input.depth, input.key)

(***************************************************************************)
(* SpecRace: two update calls on item0, each a read phase and a write      *)
(* phase, over a store that lets the phases of the two calls interleave.   *)
(***************************************************************************)
Procs == {1, 2}

RaceSlot == Decl["item0"].prefix

\* the slot before the calls: empty, a value, or bytes that do not decode
RaceStores ==
    {<<>>} \cup {StorageSet(<<>>, RaceSlot, b) : b \in {LeBytes(v, ValueWidth) : v \in 0..(ClosureMod - 1)}
                                                      \cup {<<7>>}}

InitRace ==
    /\ store \in RaceStores
    /\ \E f \in [Procs -> Closures] :
          input = [f |-> f, init |-> ItemAccessGet(store, RaceSlot)]
    /\ pc = [p \in Procs |-> "read"]
    /\ seen = [p \in Procs |-> None]
    /\ out = [p \in Procs |-> Pending]
    /\ wrote = <<>>
    /\ call = NoCall
    /\ entries = [c \in Names |-> {}]
    /\ dirty = FALSE

\* let new_value = f(self.get().map_err(UpdateError::Decode)?);
ReadStep(p) ==
    /\ pc[p] = "read"
    /\ LET r == UpdateReadPhase(store, RaceSlot, input.f[p])
       IN /\ seen' = [seen EXCEPT ![p] = r]
          /\ pc' = [pc EXCEPT ![p] = IF IsErr(r) THEN "done" ELSE "write"]
          /\ out' = [out EXCEPT ![p] = IF IsErr(r) THEN r ELSE @]
    /\ wrote' = Append(wrote, <<p, "read">>)
    /\ UNCHANGED <<store, call, entries, dirty, input>>

\* self.set(&new_value).map_err(UpdateError::Encode)
WriteStep(p) ==
    /\ pc[p] = "write"
    /\ LET w == UpdateWritePhase(store, RaceSlot, seen[p][2])
       IN /\ store' = w.st
          /\ out' = [out EXCEPT ![p] = w.res]
    /\ pc' = [pc EXCEPT ![p] = "done"]
    /\ wrote' = Append(wrote, <<p, "write">>)
    /\ UNCHANGED <<call, entries, dirty, input, seen>>

NextRace == \E p \in Procs : ReadStep(p) \/ WriteStep(p)

SpecRace == InitRace /\ [][NextRace]_vars

BothUpdated == \A p \in Procs : pc[p] = "done" /\ IsOk(out[p])

\* both reads happened before either write
ReadsFirst == wrote[1][2] = "read" /\ wrote[2][2] = "read"

\* one call ran to its end before the other began
OneAfterTheOther == wrote[1][1] = wrote[2][1]

Final == ItemAccessGet(store, RaceSlot)

\* C9: update is a read followed by a write, with nothing held in between.
\* When both calls read before either writes, the slot ends with the second
\* writer's function applied to the value originally read, the first write
\* lost; when the calls run one after the other, it ends with the second
\* function applied to the result of the first.
C9_UpdateNotAtomic ==
    BothUpdated =>
       LET a == wrote[1][1]
           b == wrote[4][1]
       IN /\ ReadsFirst => Final = Ok(Some(Apply(input.f[b], input.init[2])))
          /\ OneAfterTheOther =>
                Final = Ok(Some(Apply(input.f[b], Some(Apply(input.f[a], input.init[2])))))

\* a lost update: the final value is what neither order of the two calls,
\* run one after the other, would leave
C9_Witness ==
    /\ BothUpdated
    /\ ReadsFirst
    /\ Final = Ok(Some(Apply(input.f[wrote[4][1]], input.init[2])))
    /\ \A a \in Procs : \A b \in Procs \ {a} :
          Final # Ok(Some(Apply(input.f[b], Some(Apply(input.f[a], input.init[2])))))

====
